---- MODULE Spec2Model ----
(***************************************************************************)
(* speedtest-ambient (src/speedtest_ambient/main.py): one run discovers    *)
(* the global-scope addresses, sieves them through `ip route get`, runs    *)
(* one speed test per surviving address and uploads each result to the     *)
(* Ambient channel at the same position of the configuration.              *)
(*                                                                         *)
(* Python str values are TLA+ strings; the text a regular expression is    *)
(* run over is a sequence of one-character strings (Chars gives the        *)
(* characters of a string).  Python's None is the token None.              *)
(***************************************************************************)
EXTENDS Naturals, Sequences, FiniteSets, TLC

VARIABLES
    pc,           \* where run() stands
    config,       \* config["ambient"]["channels"], loaded once
    env,          \* what `ip route get` answers for each family
    ifs,          \* json.loads(p.stdout) of `ip --json address show scope global`
    v4addresses,  \* _separate_family's first list
    v6addresses,  \* _separate_family's second list
    gen,          \* where the generator _sieve_addresses stands
    gi,           \* index of the for loop of _sieve_addresses_family
    stdout,       \* p.stdout of the current _sieve_addresses_family
    address,      \* the address the generator last yielded
    result,       \* the _SpeedTestResult the map object last produced
    ci,           \* how many channels config_it has handed out
    config_am,    \* the channel next(config_it) returned
    calls,        \* history: the external operations issued, in order
    yielded,      \* history: the addresses _sieve_addresses yielded, in order
    error,        \* the exception that ended the run, if any
    args,         \* a function called on its own: its arguments
    ret,          \* a function called on its own: what it returned
    phase         \* a function called on its own: "input" or "returned"

runVars == <<pc, config, env, ifs, v4addresses, v6addresses, gen, gi, stdout,
             address, result, ci, config_am, calls, yielded, error>>
fnVars == <<args, ret, phase>>
vars == <<runVars, fnVars>>

(***************************************************************************)
(* Bounds of the model.                                                    *)
(***************************************************************************)
MaxIfs == 2        \* interfaces in one listing
MaxChannels == 2   \* configured reporting channels
MaxTextLen == 4    \* characters of a route-lookup text (sieve called alone)
MaxCandidates == 2 \* candidates of one family (sieve called alone)
MaxAddrInfos == 3  \* addr_info entries (_separate_family called alone)

(***************************************************************************)
(* Strings.                                                                *)
(***************************************************************************)
None == "None"

_GLOBAL_V4_ADDRESS == "192.0.2.0"

_GLOBAL_V6_ADDRESS == "2001:db8::"

\* The characters of a str (str(None) is "None", which is what an f-string
\* interpolates for None).
Chars(s) ==
    CASE s = "None" -> <<"N", "o", "n", "e">>
      [] s = "" -> <<>>
      [] s = "1.5" -> <<"1", ".", "5">>
      [] s = "1.55" -> <<"1", ".", "5", "5">>
      [] s = "1:5" -> <<"1", ":", "5">>
      [] s = "10.0.0.5" -> <<"1", "0", ".", "0", ".", "0", ".", "5">>
      [] s = "10.0.0.50" -> <<"1", "0", ".", "0", ".", "0", ".", "5", "0">>
      [] s = "10.0.0.6" -> <<"1", "0", ".", "0", ".", "0", ".", "6">>
      [] s = "10.0.0.1" -> <<"1", "0", ".", "0", ".", "0", ".", "1">>
      [] s = "2001:db8::1" -> <<"2", "0", "0", "1", ":", "d", "b", "8", ":", ":", "1">>
      [] s = "2001:db8::1:5" -> <<"2", "0", "0", "1", ":", "d", "b", "8", ":", ":", "1", ":", "5">>
      [] s = "2001:db8::f" -> <<"2", "0", "0", "1", ":", "d", "b", "8", ":", ":", "f">>
      [] s = "fe80::1" -> <<"f", "e", "8", "0", ":", ":", "1">>
      [] s = "192.0.2.0" -> <<"1", "9", "2", ".", "0", ".", "2", ".", "0">>
      [] s = "2001:db8::" -> <<"2", "0", "0", "1", ":", "d", "b", "8", ":", ":">>
      [] s = " via " -> <<" ", "v", "i", "a", " ">>
      [] s = " dev eth0 src " -> <<" ", "d", "e", "v", " ", "e", "t", "h", "0", " ", "s", "r", "c", " ">>
      [] s = " uid 0 \n" -> <<" ", "u", "i", "d", " ", "0", " ", "\n">>

(***************************************************************************)
(* re.search(rf"\b{address}\b", p.stdout, re.VERBOSE)                      *)
(***************************************************************************)
\* \w of Python's re, over the characters the model uses.
WordChars == {"0", "1", "2", "5", "6", "8", "9", "a", "b", "d", "e", "f", "h",
              "i", "n", "o", "r", "s", "t", "u", "v", "c", "N", "_"}

IsWord(c) == c \in WordChars

\* \b at position p of text (between text[p] and text[p+1]): exactly one of
\* the two neighbours is a word character; outside the text counts as none.
Boundary(text, p) ==
    LET before == p >= 1 /\ IsWord(text[p])
        after == p < Len(text) /\ IsWord(text[p + 1])
    IN  before # after

\* One pattern character against one character of the text.  The address is
\* interpolated into the pattern as it is (no re.escape): "." is the regular
\* expression's wildcard, every other character of an address stands for itself.
PatMatch(pch, ch) == IF pch = "." THEN ch # "\n" ELSE pch = ch

\* re.search of \b pat \b in text.
Search(pat, text) ==
    \E s \in 0..Len(text) :
        /\ s + Len(pat) <= Len(text)
        /\ Boundary(text, s)
        /\ \A j \in 1..Len(pat) : PatMatch(pat[j], text[s + j])
        /\ Boundary(text, s + Len(pat))

\* The condition of the if at lines 64-72.
Matches(addr, text) == Search(Chars(addr), text)

\* The for loop of _sieve_addresses_family, run to its end: what it yields.
SieveLoop(addresses, text) == SelectSeq(addresses, LAMBDA a : Matches(a, text))

\* _sieve_addresses_family given the answer `text` of its route lookup, run
\* to its end: the addresses it yields.
_sieve_addresses_family(addresses, text) ==
    IF addresses = <<>> THEN <<>> ELSE SieveLoop(addresses, text)

(***************************************************************************)
(* _separate_family                                                        *)
(***************************************************************************)
\* dict.get(key): None when the key is absent.
Get(d, k) == IF k \in DOMAIN d THEN d[k] ELSE None

\* dict.get(key, default)
GetOr(d, k, default) == IF k \in DOMAIN d THEN d[k] ELSE default

RECURSIVE SeparateLoop(_, _, _)
SeparateLoop(addr_infos, v4, v6) ==
    IF addr_infos = <<>> THEN [v4 |-> v4, v6 |-> v6]
    ELSE LET addr_info == Head(addr_infos)
             family == Get(addr_info, "family")
             addr == Get(addr_info, "local")
         IN  CASE family = "inet" -> SeparateLoop(Tail(addr_infos), Append(v4, addr), v6)
               [] family = "inet6" -> SeparateLoop(Tail(addr_infos), v4, Append(v6, addr))
               [] OTHER -> SeparateLoop(Tail(addr_infos), v4, v6)

\* Mutant: insert(0, addr) in place of append(addr).
RECURSIVE SeparateLoopPrepend(_, _, _)
SeparateLoopPrepend(addr_infos, v4, v6) ==
    IF addr_infos = <<>> THEN [v4 |-> v4, v6 |-> v6]
    ELSE LET addr_info == Head(addr_infos)
             family == Get(addr_info, "family")
             addr == Get(addr_info, "local")
         IN  CASE family = "inet" -> SeparateLoopPrepend(Tail(addr_infos), <<addr>> \o v4, v6)
               [] family = "inet6" -> SeparateLoopPrepend(Tail(addr_infos), v4, <<addr>> \o v6)
               [] OTHER -> SeparateLoopPrepend(Tail(addr_infos), v4, v6)

_separate_family_prepend(addr_infos) == SeparateLoopPrepend(addr_infos, <<>>, <<>>)

_separate_family(addr_infos) == SeparateLoop(addr_infos, <<>>, <<>>)

\* chain.from_iterable(map(aigetter, ifs))
RECURSIVE Flatten(_)
Flatten(interfaces) ==
    IF interfaces = <<>> THEN <<>>
    ELSE GetOr(Head(interfaces), "addr_info", <<>>) \o Flatten(Tail(interfaces))

(***************************************************************************)
(* The environment: the external commands' answers.                        *)
(***************************************************************************)
\* Sequences over S of length at most n.
SeqsUpTo(S, n) == UNION {[1..k -> S] : k \in 0..n}

\* The text `ip route get dst` prints for a route through gateway via ("" for
\* a directly connected route) with source address src.
RouteText(dst, via, src) ==
    Chars(dst) \o (IF via = "" THEN <<>> ELSE Chars(" via ") \o Chars(via))
        \o Chars(" dev eth0 src ") \o Chars(src) \o Chars(" uid 0 \n")

\* _command's outcomes for `ip route get`: CalledProcessError, or stdout.
RouteFailure == [ok |-> FALSE, stdout |-> <<>>]

RouteAnswers(dst, vias, srcs) ==
    {RouteFailure} \cup
    {[ok |-> TRUE, stdout |-> RouteText(dst, g, s)] : g \in vias, s \in srcs}

LocalV4 == {"10.0.0.5", "10.0.0.6", "10.0.0.50"}

LocalV6 == {"2001:db8::1", "2001:db8::1:5", "2001:db8::f"}

GatewaysV4 == {"", "10.0.0.1"}

GatewaysV6 == {"", "fe80::1"}

\* Interface objects of the JSON listing.  lo has no addr_info key; eth1
\* lists its IPv6 address before its IPv4 address; eth2 carries an entry
\* without `local`, an entry of another family and an entry whose `local`
\* is empty; tun0 has an IPv6 address only.
Interfaces ==
    { [ifname |-> "lo"],
      [ifname |-> "eth0",
       addr_info |-> << [family |-> "inet", local |-> "10.0.0.5"],
                        [family |-> "inet6", local |-> "2001:db8::1"] >>],
      [ifname |-> "eth1",
       addr_info |-> << [family |-> "inet6", local |-> "2001:db8::1:5"],
                        [family |-> "inet", local |-> "10.0.0.6"] >>],
      [ifname |-> "eth2",
       addr_info |-> << [family |-> "inet"],
                        [family |-> "mpls", local |-> "10.0.0.5"],
                        [family |-> "inet6", local |-> ""] >>],
      [ifname |-> "tun0",
       addr_info |-> << [family |-> "inet6", local |-> "2001:db8::f"] >>] }

Listings == SeqsUpTo(Interfaces, MaxIfs)

Channel(i) == [id |-> i, write_key |-> i]

Configs == {[i \in 1..k |-> Channel(i)] : k \in 0..MaxChannels}

NoResult == [ip |-> None, n |-> 0]

(***************************************************************************)
(* run()                                                                   *)
(***************************************************************************)
Init ==
    /\ pc = "get_ip_addresses"
    /\ config \in Configs
    /\ env \in [v4 : RouteAnswers(_GLOBAL_V4_ADDRESS, {"10.0.0.1"}, LocalV4),
                v6 : RouteAnswers(_GLOBAL_V6_ADDRESS, {"fe80::1"}, LocalV6)]
    /\ ifs = <<>>
    /\ v4addresses = <<>>
    /\ v6addresses = <<>>
    /\ gen = "unstarted"
    /\ gi = 0
    /\ stdout = <<>>
    /\ address = None
    /\ result = NoResult
    /\ ci = 0
    /\ config_am = Channel(0)
    /\ calls = <<>>
    /\ yielded = <<>>
    /\ error = "none"
    /\ args = <<>>
    /\ ret = <<>>
    /\ phase = "none"

\* An external operation, as the history records it.
Call(op, arg, ok) == [op |-> op, arg |-> arg, ok |-> ok]

\* An exception nobody catches ends the run.
Raise(exc) == pc' = "failed" /\ error' = exc

\* _get_ip_addresses: the listing and _separate_family run at once; the
\* generator _sieve_addresses is only created.
_get_ip_addresses ==
    /\ pc = "get_ip_addresses"
    /\ \/ /\ calls' = Append(calls, Call("ip_address", "scope global", FALSE))
          /\ Raise("CalledProcessError")
          /\ UNCHANGED <<ifs, v4addresses, v6addresses, gen>>
       \/ \E listing \in Listings :
            LET sep == _separate_family(Flatten(listing))
            IN  /\ calls' = Append(calls, Call("ip_address", "scope global", TRUE))
                /\ ifs' = listing
                /\ v4addresses' = sep.v4
                /\ v6addresses' = sep.v6
                /\ gen' = "v4_enter"
                /\ pc' = "next_result"
                /\ UNCHANGED error
    /\ UNCHANGED <<config, env, gi, stdout, address, result, ci, config_am, yielded>>
    /\ UNCHANGED fnVars

\* The family the generator is in.
InV4 == gen \in {"v4_enter", "v4_loop"}

Addresses == IF InV4 THEN v4addresses ELSE v6addresses

\* _sieve_addresses: after the v4 family comes the v6 family, then the end.
AfterFamily == IF InV4 THEN "v6_enter" ELSE "exhausted"

\* Mutant: the `if not addresses: return` is missing.
RouteLookupNoEmptyCheck ==
    /\ pc = "next_result"
    /\ gen \in {"v4_enter", "v6_enter"}
    /\ LET dst == IF InV4 THEN _GLOBAL_V4_ADDRESS ELSE _GLOBAL_V6_ADDRESS
           p == IF InV4 THEN env.v4 ELSE env.v6
       IN  /\ calls' = Append(calls, Call("ip_route", dst, p.ok))
           /\ IF p.ok
              THEN /\ stdout' = p.stdout
                   /\ gen' = IF InV4 THEN "v4_loop" ELSE "v6_loop"
                   /\ gi' = 1
                   /\ UNCHANGED <<pc, error>>
              ELSE /\ Raise("CalledProcessError")
                   /\ UNCHANGED <<stdout, gen, gi>>
    /\ UNCHANGED <<config, env, ifs, v4addresses, v6addresses, address, result,
                   ci, config_am, yielded>>
    /\ UNCHANGED fnVars

\* _sieve_addresses_family up to its for loop, when the generator is resumed
\* at the start of a family: return at once on an empty list, else one
\* `ip route get`.
RouteLookup ==
    /\ pc = "next_result"
    /\ gen \in {"v4_enter", "v6_enter"}
    /\ IF Addresses = <<>>
       THEN /\ gen' = AfterFamily
            /\ UNCHANGED <<pc, error, calls, stdout, gi>>
       ELSE LET dst == IF InV4 THEN _GLOBAL_V4_ADDRESS ELSE _GLOBAL_V6_ADDRESS
                p == IF InV4 THEN env.v4 ELSE env.v6
            IN  /\ calls' = Append(calls, Call("ip_route", dst, p.ok))
                /\ IF p.ok
                   THEN /\ stdout' = p.stdout
                        /\ gen' = IF InV4 THEN "v4_loop" ELSE "v6_loop"
                        /\ gi' = 1
                        /\ UNCHANGED <<pc, error>>
                   ELSE /\ Raise("CalledProcessError")
                        /\ UNCHANGED <<stdout, gen, gi>>
    /\ UNCHANGED <<config, env, ifs, v4addresses, v6addresses, address, result,
                   ci, config_am, yielded>>
    /\ UNCHANGED fnVars

\* One iteration of the for loop of _sieve_addresses_family: yield the
\* address if the text matches, else go on; past the last address the family
\* is done.
SieveStep ==
    /\ pc = "next_result"
    /\ gen \in {"v4_loop", "v6_loop"}
    /\ IF gi > Len(Addresses)
       THEN /\ gen' = AfterFamily
            /\ UNCHANGED <<gi, pc, address, yielded>>
       ELSE /\ gi' = gi + 1
            /\ gen' = gen
            /\ IF Matches(Addresses[gi], stdout)
               THEN /\ address' = Addresses[gi]
                    /\ yielded' = Append(yielded, Addresses[gi])
                    /\ pc' = "speed_test"
               ELSE UNCHANGED <<pc, address, yielded>>
    /\ UNCHANGED <<config, env, ifs, v4addresses, v6addresses, stdout, result,
                   ci, config_am, calls, error>>
    /\ UNCHANGED fnVars

\* Mutant: a failing speed test is skipped and the loop goes on.
_speed_test_skip_failure ==
    /\ pc = "speed_test"
    /\ \E ok \in BOOLEAN :
        /\ calls' = Append(calls, Call("speedtest", address, ok))
        /\ IF ok
           THEN /\ result' = [ip |-> address,
                              n |-> Len(SelectSeq(calls', LAMBDA c : c.op = "speedtest"))]
                /\ pc' = "next_channel"
           ELSE /\ pc' = "next_result"
                /\ UNCHANGED result
    /\ UNCHANGED <<config, env, ifs, v4addresses, v6addresses, gen, gi, stdout,
                   address, ci, config_am, yielded, error>>
    /\ UNCHANGED fnVars

\* Mutant: the results are collected eagerly (list(map(...))): after a speed
\* test the next address is pulled before anything is uploaded.
_speed_test_eager ==
    /\ pc = "speed_test"
    /\ \E ok \in BOOLEAN :
        /\ calls' = Append(calls, Call("speedtest", address, ok))
        /\ IF ok
           THEN /\ result' = [ip |-> address,
                              n |-> Len(SelectSeq(calls', LAMBDA c : c.op = "speedtest"))]
                /\ pc' = "next_result"
                /\ UNCHANGED error
           ELSE /\ Raise("CalledProcessError")
                /\ UNCHANGED result
    /\ UNCHANGED <<config, env, ifs, v4addresses, v6addresses, gen, gi, stdout,
                   address, ci, config_am, yielded>>
    /\ UNCHANGED fnVars

\* _speed_test, called by the map object for the address just yielded.  A
\* failing command and an answer json.loads or the field lookups reject both
\* raise.
_speed_test ==
    /\ pc = "speed_test"
    /\ \E ok \in BOOLEAN :
        /\ calls' = Append(calls, Call("speedtest", address, ok))
        /\ IF ok
           THEN /\ result' = [ip |-> address,
                              n |-> Len(SelectSeq(calls', LAMBDA c : c.op = "speedtest"))]
                /\ pc' = "next_channel"
                /\ UNCHANGED error
           ELSE /\ Raise("CalledProcessError")
                /\ UNCHANGED result
    /\ UNCHANGED <<config, env, ifs, v4addresses, v6addresses, gen, gi, stdout,
                   address, ci, config_am, yielded>>
    /\ UNCHANGED fnVars

\* Mutant: every result goes to the first channel (channels[0]).
NextChannelFirst ==
    /\ pc = "next_channel"
    /\ IF Len(config) = 0
       THEN /\ Raise("StopIteration")
            /\ UNCHANGED <<ci, config_am>>
       ELSE /\ config_am' = config[1]
            /\ ci' = 1
            /\ pc' = "send"
            /\ UNCHANGED error
    /\ UNCHANGED <<config, env, ifs, v4addresses, v6addresses, gen, gi, stdout,
                   address, result, calls, yielded>>
    /\ UNCHANGED fnVars

\* Mutant: the channel list is cycled (itertools.cycle) and never runs out.
NextChannelCycle ==
    /\ pc = "next_channel"
    /\ IF Len(config) = 0
       THEN /\ Raise("StopIteration")
            /\ UNCHANGED <<ci, config_am>>
       ELSE /\ config_am' = config[(ci % Len(config)) + 1]
            /\ ci' = (ci % Len(config)) + 1
            /\ pc' = "send"
            /\ UNCHANGED error
    /\ UNCHANGED <<config, env, ifs, v4addresses, v6addresses, gen, gi, stdout,
                   address, result, calls, yielded>>
    /\ UNCHANGED fnVars

\* config_am = next(config_it)
NextChannel ==
    /\ pc = "next_channel"
    /\ IF ci >= Len(config)
       THEN /\ Raise("StopIteration")
            /\ UNCHANGED <<ci, config_am>>
       ELSE /\ config_am' = config[ci + 1]
            /\ ci' = ci + 1
            /\ pc' = "send"
            /\ UNCHANGED error
    /\ UNCHANGED <<config, env, ifs, v4addresses, v6addresses, gen, gi, stdout,
                   address, result, calls, yielded>>
    /\ UNCHANGED fnVars

\* am.send(result.to_ambient()) and response.raise_for_status()
Send ==
    /\ pc = "send"
    /\ \E ok \in BOOLEAN :
        /\ calls' = Append(calls, Call("send", [channel |-> config_am, result |-> result], ok))
        /\ IF ok
           THEN pc' = "next_result" /\ UNCHANGED error
           ELSE Raise("HTTPError")
    /\ UNCHANGED <<config, env, ifs, v4addresses, v6addresses, gen, gi, stdout,
                   address, result, ci, config_am, yielded>>
    /\ UNCHANGED fnVars

\* The generator is exhausted: the for loop of _ambient ends and run returns.
LoopEnd ==
    /\ pc = "next_result"
    /\ gen = "exhausted"
    /\ pc' = "done"
    /\ UNCHANGED <<config, env, ifs, v4addresses, v6addresses, gen, gi, stdout,
                   address, result, ci, config_am, calls, yielded, error>>
    /\ UNCHANGED fnVars

Next == _get_ip_addresses \/ RouteLookup \/ SieveStep \/ _speed_test
            \/ NextChannel \/ Send \/ LoopEnd

Spec == Init /\ [][Next]_vars

(***************************************************************************)
(* Functions called on their own, on inputs drawn from bounded sets.       *)
(***************************************************************************)
\* run() is not running.
RunIdle ==
    /\ pc = "idle"
    /\ config = <<>>
    /\ env = [v4 |-> RouteFailure, v6 |-> RouteFailure]
    /\ ifs = <<>>
    /\ v4addresses = <<>>
    /\ v6addresses = <<>>
    /\ gen = "unstarted"
    /\ gi = 0
    /\ stdout = <<>>
    /\ address = None
    /\ result = NoResult
    /\ ci = 0
    /\ config_am = Channel(0)
    /\ calls = <<>>
    /\ yielded = <<>>
    /\ error = "none"

\* addr_info entries: each of `family` and `local` may be absent.
Families == {"inet", "inet6", "mpls"}

Locals == {"10.0.0.5", "2001:db8::1", ""}

AddrInfos ==
    [family : Families, local : Locals] \cup [family : Families]
        \cup [local : Locals] \cup {[ifindex |-> 1]}

InitSeparate ==
    /\ RunIdle
    /\ args \in SeqsUpTo(AddrInfos, MaxAddrInfos)
    /\ ret = [v4 |-> <<>>, v6 |-> <<>>]
    /\ phase = "input"

CallSeparate ==
    /\ phase = "input"
    /\ ret' = _separate_family(args)
    /\ phase' = "returned"
    /\ UNCHANGED args
    /\ UNCHANGED runVars

SpecSeparate == InitSeparate /\ [][CallSeparate]_vars

\* Route-lookup texts over a small alphabet, and candidates over it.
SieveAlphabet == {"1", "5", ".", ":", " "}

SieveCandidates == {"1.5", "1.55", "1:5"}

InitSieve ==
    /\ RunIdle
    /\ args \in [stdout : SeqsUpTo(SieveAlphabet, MaxTextLen),
                 addresses : SeqsUpTo(SieveCandidates, MaxCandidates)]
    /\ ret = <<>>
    /\ phase = "input"

\* _sieve_addresses_family consumed to its end, its route lookup answering
\* args.stdout.
CallSieve ==
    /\ phase = "input"
    /\ ret' = _sieve_addresses_family(args.addresses, args.stdout)
    /\ phase' = "returned"
    /\ UNCHANGED args
    /\ UNCHANGED runVars

SpecSieve == InitSieve /\ [][CallSieve]_vars

\* The same, the text being what `ip route get` prints for a routing
\* decision: the candidates are local addresses of the family, the gateway
\* is another host's address (or none), the source is a local address.
RouteDecisions(v4) ==
    [via : IF v4 THEN GatewaysV4 ELSE GatewaysV6,
     src : IF v4 THEN LocalV4 ELSE LocalV6]

InitRoute ==
    /\ RunIdle
    /\ \E v4 \in BOOLEAN :
       \E route \in RouteDecisions(v4) :
       \E addresses \in SeqsUpTo(IF v4 THEN LocalV4 ELSE LocalV6, MaxCandidates) :
          args = [route |-> route,
                  stdout |-> RouteText(IF v4 THEN _GLOBAL_V4_ADDRESS
                                             ELSE _GLOBAL_V6_ADDRESS,
                                       route.via, route.src),
                  addresses |-> addresses]
    /\ ret = <<>>
    /\ phase = "input"

SpecRoute == InitRoute /\ [][CallSieve]_vars

(***************************************************************************)
(* What the claims speak of.                                               *)
(***************************************************************************)
CallsOf(op) == SelectSeq(calls, LAMBDA c : c.op = op)

Tests == CallsOf("speedtest")

Sends == CallsOf("send")

LookupsTo(dst) == SelectSeq(calls, LAMBDA c : c.op = "ip_route" /\ c.arg = dst)

Listed == calls # <<>> /\ calls[1].ok

NoCallFailed == \A i \in 1..Len(calls) : calls[i].ok

Terminated == pc \in {"done", "failed"}

\* The route lookups the sieve needs both answer.
SieveAnswered ==
    /\ Listed
    /\ v4addresses = <<>> \/ env.v4.ok
    /\ v6addresses = <<>> \/ env.v6.ok

\* The surviving addresses: what the sieve yields when it is consumed to its
\* end, IPv4 first.
Survivors ==
    _sieve_addresses_family(v4addresses, env.v4.stdout)
        \o _sieve_addresses_family(v6addresses, env.v6.stdout)

\* The `local` values of the listing's entries of one family, in discovery order.
Discovered(family) ==
    LET sel == SelectSeq(Flatten(ifs), LAMBDA e : Get(e, "family") = family)
    IN  [i \in 1..Len(sel) |-> Get(sel[i], "local")]

RECURSIVE IsSubseq(_, _)
IsSubseq(s, t) ==
    IF s = <<>> THEN TRUE
    ELSE IF t = <<>> THEN FALSE
    ELSE IF Head(s) = Head(t) THEN IsSubseq(Tail(s), Tail(t))
    ELSE IsSubseq(s, Tail(t))

\* The entries the Family Splitter is specified to keep: the given family,
\* with a `local` that is present and not empty.
Kept(addr_infos, family) ==
    LET sel == SelectSeq(addr_infos,
                         LAMBDA e : /\ Get(e, "family") = family
                                    /\ "local" \in DOMAIN e
                                    /\ e.local # "")
    IN  [i \in 1..Len(sel) |-> sel[i].local]

\* tok occurs in text literally, with a word boundary on either side.
OccursAsToken(tok, text) ==
    \E s \in 0..Len(text) :
        /\ s + Len(tok) <= Len(text)
        /\ Boundary(text, s)
        /\ SubSeq(text, s + 1, s + Len(tok)) = tok
        /\ Boundary(text, s + Len(tok))

(***************************************************************************)
(* The claims.                                                             *)
(***************************************************************************)

\* C1 (as claimed): _separate_family returns, per family, exactly the `local`
\* values of the entries of that family whose `local` is present and not
\* empty, in their original order; every other entry contributes nothing.
C1_SplitDropsMissingLocal ==
    phase = "returned" =>
        /\ ret.v4 = Kept(args, "inet")
        /\ ret.v6 = Kept(args, "inet6")

\* C2 (as claimed): once a route lookup has failed, no speed test has been
\* run and no upload has been made, at the failure or at any time after.
C2_NoReportBeforeLookupFailure ==
    (\E i \in 1..Len(calls) : calls[i].op = "ip_route" /\ ~calls[i].ok)
        => (Tests = <<>> /\ Sends = <<>>)

\* C3 (as claimed): the sieve of one family yields exactly the candidates that
\* occur in the route-lookup text literally as a whole token, in candidate
\* order.
C3_SieveYieldsLiteralTokens ==
    phase = "returned" =>
        ret = SelectSeq(args.addresses,
                        LAMBDA a : OccursAsToken(Chars(a), args.stdout))

\* C4: in a run that completes, the i-th surviving address got the i-th speed
\* test and the i-th upload, that upload went to the i-th configured channel
\* and carried the result measured for that address, there were no other
\* speed tests or uploads, and no channel got two uploads.
C4_OneTestOneUploadPerSurvivor ==
    pc = "done" =>
        /\ yielded = Survivors
        /\ Len(Tests) = Len(Survivors)
        /\ Len(Sends) = Len(Survivors)
        /\ Len(Survivors) <= Len(config)
        /\ \A i \in 1..Len(Survivors) :
            /\ Tests[i].arg = Survivors[i]
            /\ Tests[i].ok
            /\ Sends[i].ok
            /\ Sends[i].arg.channel = config[i]
            /\ Sends[i].arg.result = [ip |-> Survivors[i], n |-> i]
        /\ \A i, j \in 1..Len(Sends) :
            i # j => Sends[i].arg.channel # Sends[j].arg.channel

C4_Witness ==
    /\ pc = "done"
    /\ Len(Survivors) = 2
    /\ Survivors[1] # Survivors[2]
    /\ Len(Sends) = 2

\* C5: the addresses the sieve has yielded are some IPv4 addresses of the
\* listing in their discovery order, followed by some IPv6 addresses of the
\* listing in their discovery order, whatever the order of the two families
\* in the listing.
C5_V4BeforeV6InDiscoveryOrder ==
    \E k \in 0..Len(yielded) :
        /\ IsSubseq(SubSeq(yielded, 1, k), Discovered("inet"))
        /\ IsSubseq(SubSeq(yielded, k + 1, Len(yielded)), Discovered("inet6"))

\* An IPv6 entry discovered before an IPv4 entry, both surviving, and two
\* survivors of one family.
C5_Witness ==
    /\ Flatten(ifs) # <<>>
    /\ Get(Head(Flatten(ifs)), "family") = "inet6"
    /\ yielded = <<"10.0.0.6", "2001:db8::1:5", "2001:db8::1">>

\* C6: a route lookup goes to the probe destination of a family whose
\* candidate list is not empty, at most once per family; with both candidate
\* lists empty there is no route lookup, nothing is yielded, and no speed
\* test and no upload happens.
C6_LookupOnlyForNonEmptyFamily ==
    /\ \A i \in 1..Len(calls) :
        calls[i].op = "ip_route" =>
            calls[i].arg \in {_GLOBAL_V4_ADDRESS, _GLOBAL_V6_ADDRESS}
    /\ Len(LookupsTo(_GLOBAL_V4_ADDRESS)) <= 1
    /\ Len(LookupsTo(_GLOBAL_V6_ADDRESS)) <= 1
    /\ LookupsTo(_GLOBAL_V4_ADDRESS) # <<>> => v4addresses # <<>>
    /\ LookupsTo(_GLOBAL_V6_ADDRESS) # <<>> => v6addresses # <<>>
    /\ (v4addresses = <<>> /\ v6addresses = <<>>) =>
        /\ CallsOf("ip_route") = <<>>
        /\ yielded = <<>>
        /\ Tests = <<>>
        /\ Sends = <<>>

\* A completed run over a listing with IPv6 candidates only: the IPv4 family
\* was skipped, the IPv6 family got its one lookup.
C6_Witness ==
    /\ pc = "done"
    /\ ifs # <<>>
    /\ v4addresses = <<>>
    /\ v6addresses # <<>>
    /\ CallsOf("ip_route") = <<Call("ip_route", _GLOBAL_V6_ADDRESS, TRUE)>>

\* C7 (as claimed): an address the sieve yields is the source address the
\* routing decision selected.
C7_SurvivorIsSelectedSource ==
    phase = "returned" =>
        \A i \in 1..Len(ret) : ret[i] = args.route.src

\* C8: uploads go to the channels in order, one each, so there are never more
\* than K of them; with more than K surviving addresses the run never
\* completes; and when no external command fails it ends with the channel
\* list exhausted (StopIteration), the first K survivors uploaded to
\* channels 1..K and nothing uploaded for a later one.
C8_ChannelsExhausted ==
    /\ Len(Sends) <= Len(config)
    /\ \A i \in 1..Len(Sends) :
        /\ Sends[i].arg.channel = config[i]
        /\ Sends[i].arg.result.ip = yielded[i]
    /\ (SieveAnswered /\ Len(Survivors) > Len(config)) =>
        /\ pc # "done"
        /\ (Terminated /\ NoCallFailed) =>
            /\ error = "StopIteration"
            /\ Len(Sends) = Len(config)
            /\ \A i \in 1..Len(Sends) : Sends[i].arg.result.ip = Survivors[i]
    /\ error = "StopIteration" =>
        /\ pc = "failed"
        /\ SieveAnswered => Len(Survivors) > Len(config)
        /\ Len(Sends) = Len(config)
        /\ Len(yielded) = Len(config) + 1

C8_Witness ==
    /\ pc = "failed"
    /\ error = "StopIteration"
    /\ Len(config) = 2
    /\ Len(Sends) = 2
    /\ SieveAnswered
    /\ Len(Survivors) = 3

\* C9: a failed external operation is the last one of the run and the run
\* has failed with its exception; the interface listing is the first
\* operation, issued once.
C9_FailStop ==
    /\ \A i \in 1..Len(calls) :
        /\ (calls[i].op = "ip_address") = (i = 1)
        /\ ~calls[i].ok =>
            /\ i = Len(calls)
            /\ pc = "failed"
            /\ error = (IF calls[i].op = "send" THEN "HTTPError"
                                                 ELSE "CalledProcessError")
    /\ pc = "done" => NoCallFailed

\* The second speed test failed, after the first address was uploaded.
C9_Witness ==
    /\ pc = "failed"
    /\ Len(Tests) = 2
    /\ ~Tests[2].ok
    /\ Len(Sends) = 1

\* C10: speed tests and uploads alternate, starting with a speed test: the
\* k-th speed test is for the k-th yielded address and follows a successful
\* (k-1)-th upload, the k-th upload follows the successful k-th speed test
\* and carries its result, and at most one result is measured and not yet
\* uploaded.
C10_TestsAndUploadsAlternate ==
    LET ts == SelectSeq(calls, LAMBDA c : c.op \in {"speedtest", "send"})
    IN  /\ \A i \in 1..Len(ts) :
            IF i % 2 = 1
            THEN /\ ts[i].op = "speedtest"
                 /\ ts[i].arg = yielded[(i + 1) \div 2]
                 /\ i > 1 => ts[i - 1].ok
            ELSE /\ ts[i].op = "send"
                 /\ ts[i - 1].ok
                 /\ ts[i].arg.result = [ip |-> ts[i - 1].arg, n |-> i \div 2]
        /\ Len(Tests) - Len(Sends) \in {0, 1}
        /\ Len(yielded) - Len(Tests) \in {0, 1}

C10_Witness ==
    /\ Len(Tests) = 3
    /\ Len(Sends) = 2
    /\ Sends[2].ok

====
